---- MODULE Spec2Model ----
(***************************************************************************)
(* A model of MCPService (services/mcpService.js): the connection map, the *)
(* tool registry, the transports it opens (spawned processes and sockets),  *)
(* and the invokeTool calls with their response handlers and timers.        *)
(*                                                                         *)
(* One action is one turn of the Node event loop: an API call, an event of *)
(* a transport, or a timer callback.                                        *)
(***************************************************************************)
EXTENDS Integers, Sequences, FiniteSets, TLC

VARIABLES
    servers,      \* database.mcpServers: worker id -> configuration
    connections,  \* this.connections: worker id -> entry
    tools,        \* this.tools: tool id -> descriptor
    transports,   \* every process spawned and socket dialled so far
    calls,        \* every invokeTool call made so far
    clock,        \* Date.now()
    replies,      \* history: per call, the first message with the call's id
                  \* that its transport delivered after the call was made
    reconnected,  \* history: the workers reconnectToServer was called for
                  \* while they had no connection entry
    withdrawn,    \* history: the registered tools that the latest tool list
                  \* of their worker did not name
    agent         \* AgentService: its agents and the turn processMessage runs

vars == <<servers, connections, tools, transports, calls, clock, replies, reconnected,
         withdrawn, agent>>

----------------------------------------------------------------------------
(* Bounds of the model *)

MaxCalls == 2
MaxTransports == 3
MaxObjects == 3
StartTime == 100

(* Program constants *)

TimeoutMs == 30000
HandshakeId == 1

----------------------------------------------------------------------------
(* Configuration: database.mcpServers *)

Workers == {"w1", "w2"}
WorkerOrder == <<"w1", "w2">>
ToolNames == {"a"}
Values == {"v1", "v2"}
ArgValues == {"p"}
ErrorTexts == {"e1"}

ProtocolOf(w) == IF w = "w1" THEN "stdio" ELSE "ws"

\* The server configurations the model starts from. The demo data ships two
\* stdio servers, both disabled; the model lets the configuration data vary:
\* one process worker and one socket worker, each enabled or not.
\* wellFormed = FALSE stands for a configuration on
\* which opening the transport throws synchronously (config missing, so that
\* config.env throws; a host/port that makes no URL).
\* port is the connection detail of the configuration (host/port): every
\* server starts on FirstPort, and only the configuration update changes it.
FirstPort == "p1"

ServerConfigs(w) ==
    { [id |-> w, protocol |-> ProtocolOf(w), enabled |-> e, wellFormed |-> ok,
       port |-> FirstPort] :
        e \in BOOLEAN, ok \in BOOLEAN }

NoConfig == [id |-> "", protocol |-> "", enabled |-> FALSE, wellFormed |-> FALSE,
             port |-> ""]

----------------------------------------------------------------------------
(* Values of the program *)

\* The entry of a worker that connections.get(id) does not find.
NoConnection == [handle |-> 0, config |-> NoConfig, status |-> "none", protocol |-> ""]

NoReply == [k |-> "none", v |-> "", pend |-> FALSE]

Pending == [k |-> "pending", v |-> ""]
Resolved(v) == [k |-> "resolved", v |-> v]
Rejected(e) == [k |-> "rejected", v |-> e]

ErrToolNotFound == "Tool not found"
ErrNotConnected == "MCP server not connected"
ErrTimeout == "Tool invocation timeout"
ErrTypeError == "TypeError"

\* `${serverId}:${tool.name}`
ToolId(w, name) == <<w, name>>

\* JSON-RPC messages.
NoMsg == [id |-> 0, method |-> "", isErr |-> FALSE, val |-> "", tools |-> {}, call |-> 0]
Request(id, method, name, args, c) ==
    [id |-> id, method |-> method, isErr |-> FALSE, val |-> args, tools |-> {name}, call |-> c]
ResultMsg(id, v) ==
    [id |-> id, method |-> "", isErr |-> FALSE, val |-> v, tools |-> {}, call |-> 0]
ErrorMsg(id, e) ==
    [id |-> id, method |-> "", isErr |-> TRUE, val |-> e, tools |-> {}, call |-> 0]
ToolsListMsg(names) ==
    [id |-> 0, method |-> "tools/list", isErr |-> FALSE, val |-> "", tools |-> names, call |-> 0]

\* The text of a data chunk: a sequence of pieces, each the serialisation of
\* one JSON value, a line terminator, or text that is no JSON value.
JsonPiece(m) == [k |-> "json", m |-> m]
NewLine == [k |-> "nl", m |-> NoMsg]
Fragment == [k |-> "frag", m |-> NoMsg]

\* The serialisation of a JSON value cut in two: its first part, and the rest.
HeadPiece(m) == [k |-> "head", m |-> m]
TailPiece(m) == [k |-> "tail", m |-> m]

\* JSON.stringify(message) + '\n'
Stringify(m) == <<JsonPiece(m), NewLine>>

\* Mutant: text that cannot be parsed is taken for an empty tool list.
ParseFailAsToolList == [ok |-> TRUE, m |-> ToolsListMsg({})]

\* JSON.parse(text): exactly one JSON value, white space around it allowed.
ParseFail == [ok |-> FALSE, m |-> NoMsg]
JsonParse(text) ==
    LET body == SelectSeq(text, LAMBDA p : p.k # "nl")
    IN  IF Len(body) = 1 /\ body[1].k = "json"
        THEN [ok |-> TRUE, m |-> body[1].m]
        ELSE ParseFail

----------------------------------------------------------------------------
(* AgentService: values *)

\* Texts the agent handles: the output of the model (a sequence of pieces,
\* see below), the content of the follow-up reply, the demo-mode notice.
Raw(output) == [k |-> "output", out |-> output, v |-> ""]
Content(c) == [k |-> "content", out |-> <<>>, v |-> c]
DemoNotice == [k |-> "demo", out |-> <<>>, v |-> ""]
NoText == [k |-> "none", out |-> <<>>, v |-> ""]

\* What processMessage returns.
NoResult == [success |-> FALSE, response |-> NoText, toolsUsed |-> <<>>, error |-> "pending"]
Success(response, toolsUsed) ==
    [success |-> TRUE, response |-> response, toolsUsed |-> toolsUsed, error |-> ""]
Failure(e) == [success |-> FALSE, response |-> NoText, toolsUsed |-> <<>>, error |-> e]

\* The agent service with the agents of the given providers and no turn
\* running. followUps is history: the prompts of the follow-up model calls.
IdleAgent(agents) ==
    [agents |-> agents, pc |-> "idle", provider |-> "", message |-> "",
     raw |-> <<>>, toolCalls |-> <<>>, i |-> 0,
     toolsUsed |-> <<>>, toolResults |-> <<>>, followUps |-> <<>>,
     result |-> NoResult]

----------------------------------------------------------------------------
(* Transports: child processes and sockets *)

\* greeted is history: a response to the initialize request was delivered.
NewTransport(cfg) ==
    [w |-> cfg.id, proto |-> cfg.protocol, cfg |-> cfg, st |-> "opening",
     killed |-> FALSE, sent |-> {}, listeners |-> {}, greeted |-> FALSE]

\* ws.readyState: CONNECTING 0, OPEN 1, CLOSING 2, CLOSED 3
ReadyState(tr) ==
    CASE tr.st = "opening" -> 0
      [] tr.st = "open" /\ ~tr.killed -> 1
      [] tr.st = "open" /\ tr.killed -> 2
      [] OTHER -> 3

TransportIds == 1..Len(transports)
CallIds == 1..Len(calls)

\* What the model keeps count of, against MaxObjects: the transports opened,
\* the calls made, and the events recorded as history.
Objects ==
    Len(calls) + Len(transports) + Cardinality(reconnected)
        + Cardinality({t \in TransportIds : transports[t].greeted})
        + Cardinality(withdrawn)

----------------------------------------------------------------------------
(* connectToServer, sendMessage, updateTools as functions of the state *)

\* Mutant: the entry never holds the handle.
EntryWithoutHandle(handle, cfg, status) ==
    [handle |-> 0, config |-> cfg, status |-> status, protocol |-> cfg.protocol]

\* Mutant: a worker whose transport has ended has no entry any more.
EntryUnlessEnded(handle, cfg, status) ==
    IF status = "disconnected" THEN NoConnection
    ELSE [handle |-> handle, config |-> cfg, status |-> status, protocol |-> cfg.protocol]

\* connections.set(id, {process/ws, config, status, protocol})
Entry(handle, cfg, status) ==
    [handle |-> handle, config |-> cfg, status |-> status, protocol |-> cfg.protocol]

\* connectToServer(serverConfig) on the state S = [connections, transports]:
\* it spawns the process or dials the socket and returns; the catch branch
\* records 'failed' when opening throws.
ConnectToServer(S, cfg) ==
    IF ~cfg.wellFormed
    THEN [S EXCEPT !.connections[cfg.id] = Entry(0, cfg, "failed")]
    ELSE [S EXCEPT !.transports = Append(@, NewTransport(cfg))]

\* The condition under which sendMessage writes to the transport of conn.
CanWrite(conn, trans) ==
    /\ conn.status # "none"
    /\ \/ conn.protocol = "stdio" /\ conn.handle # 0
       \/ conn.protocol = "ws" /\ conn.handle # 0 /\ ReadyState(trans[conn.handle]) = 1

\* sendMessage(serverId, message): the transports after the call.
SendMessage(conns, trans, serverId, msg) ==
    LET conn == conns[serverId]
    IN  IF CanWrite(conn, trans)
        THEN [trans EXCEPT ![conn.handle].sent = @ \cup {msg}]
        ELSE trans

InitializeMsg == Request(HandshakeId, "initialize", "", "", 0)

\* updateTools(serverId, tools): the registry after the call.
UpdateTools(reg, serverId, names) ==
    [id \in DOMAIN reg \cup {ToolId(serverId, n) : n \in names} |->
        IF id \in {ToolId(serverId, n) : n \in names}
        THEN [serverId |-> serverId, name |-> id[2], fullName |-> id]
        ELSE reg[id]]

\* handleMessage(serverId, message): the registry after the call.
HandleMessage(reg, serverId, m) ==
    IF m.method = "tools/list" THEN UpdateTools(reg, serverId, m.tools) ELSE reg

\* initializeConnections(): connectToServer for every enabled server, in order.
RECURSIVE InitializeFrom(_, _, _)
InitializeFrom(S, cfgs, i) ==
    IF i > Len(WorkerOrder) THEN S
    ELSE LET cfg == cfgs[WorkerOrder[i]]
         IN  InitializeFrom(IF cfg.enabled THEN ConnectToServer(S, cfg) ELSE S, cfgs, i + 1)

InitializeConnections(cfgs) ==
    InitializeFrom([connections |-> [w \in Workers |-> NoConnection], transports |-> <<>>],
                   cfgs, 1)

\* The state after the constructor of MCPService has run.
Init ==
    /\ servers \in [Workers -> UNION {ServerConfigs(w) : w \in Workers}]
    /\ \A w \in Workers : servers[w] \in ServerConfigs(w)
    /\ \A w \in Workers : ~servers[w].enabled => servers[w].wellFormed
    /\ LET S == InitializeConnections(servers)
       IN  /\ connections = S.connections
           /\ transports = S.transports
    /\ tools = <<>>
    /\ calls = <<>>
    /\ replies = <<>>
    /\ reconnected = {}
    /\ withdrawn = {}
    /\ clock = StartTime
    /\ agent = IdleAgent({})

----------------------------------------------------------------------------
(* Events of a transport *)

\* 'spawn' of a child process, 'open' of a socket.
OnOpen(t) ==
    /\ t \in TransportIds
    /\ transports[t].st = "opening"
    /\ LET tr == transports[t]
           conns == [connections EXCEPT ![tr.w] = Entry(t, tr.cfg, "connected")]
       IN  /\ connections' = conns
           /\ transports' = SendMessage(conns, [transports EXCEPT ![t].st = "open"],
                                        tr.w, InitializeMsg)
    /\ UNCHANGED <<servers, tools, calls, clock, replies, reconnected, withdrawn, agent>>

\* The state of a transport after its 'error' event: a process that was
\* spawned keeps running; a process that could not be spawned and a socket
\* are on their way down.
AfterError(tr) ==
    IF tr.proto = "stdio" /\ tr.st = "open" THEN "open" ELSE "failing"

\* 'error' of a child process or a socket.
OnError(t) ==
    /\ t \in TransportIds
    /\ transports[t].st \in {"opening", "open"}
    /\ LET tr == transports[t]
       IN  /\ connections' = [connections EXCEPT ![tr.w] = Entry(0, tr.cfg, "error")]
           /\ transports' = [transports EXCEPT ![t].st = AfterError(tr)]
    /\ UNCHANGED <<servers, tools, calls, clock, replies, reconnected, withdrawn, agent>>

\* The state of a transport after 'exit' / 'close': the output stream of a
\* process that ran may still deliver data.
AfterExit(tr) ==
    IF tr.proto = "stdio" /\ tr.st = "open" THEN "exited" ELSE "dead"

\* Mutant: the calls pending on a transport are rejected when it ends.
CallsRejectedOnExit(cs, t) ==
    [c \in DOMAIN cs |->
        IF cs[c].t = t /\ cs[c].outcome = Pending
        THEN [cs[c] EXCEPT !.timer = FALSE, !.outcome = Rejected(ErrNotConnected)]
        ELSE cs[c]]

\* The calls after 'exit' / 'close' of transport t: the handler writes the
\* worker's entry and nothing else, so they are as they were.
CallsAfterExit(cs, t) == cs

\* 'exit' of a child process, 'close' of a socket.
OnExit(t) ==
    /\ t \in TransportIds
    /\ transports[t].st \in {"open", "failing"}
    /\ LET tr == transports[t]
       IN  /\ connections' = [connections EXCEPT ![tr.w] = Entry(0, tr.cfg, "disconnected")]
           /\ transports' = [transports EXCEPT ![t].st = AfterExit(tr)]
    /\ calls' = CallsAfterExit(calls, t)
    /\ UNCHANGED <<servers, tools, clock, replies, reconnected, withdrawn, agent>>

----------------------------------------------------------------------------
(* invokeTool *)

\* Date.now()
DateNow == clock

\* this.tools.get(toolName): the descriptor, or none.
NoTool == [serverId |-> "", name |-> "", fullName |-> <<>>]
\* Mutant: an id that is not registered falls back to a registered tool of
\* the same bare name.
LookupToolByName(toolId) ==
    IF toolId \in DOMAIN tools THEN tools[toolId]
    ELSE IF \E id \in DOMAIN tools : id[2] = toolId[2]
         THEN tools[CHOOSE id \in DOMAIN tools : id[2] = toolId[2]]
         ELSE NoTool

LookupTool(toolId) == IF toolId \in DOMAIN tools THEN tools[toolId] ELSE NoTool

\* Mutant: only a missing entry counts as not connected.
NotConnectedLoose(conn) == conn.status = "none"

\* !connection || connection.status !== 'connected'
NotConnected(conn) == conn.status # "connected"

\* Mutant: the last resolve or reject decides.
SettleOverwrite(outcome, new) == new

\* A settled promise stays as it is: resolve and reject act on a pending one only.
Settle(outcome, new) == IF outcome.k = "pending" THEN new ELSE outcome

NewCall(toolId, args) ==
    [tool |-> toolId, args |-> args, id |-> 0, t |-> 0,
     timer |-> FALSE, outcome |-> Pending]

\* Mutant: the timer is armed only when the request can be written.
TimerArmedIfWritten(conn, trans) == CanWrite(conn, trans)

\* const timeout = setTimeout(..., 30000): first thing in the executor,
\* whatever the state of the transport.
TimerArmed(conn, trans) == TRUE

\* Mutant: the messageHandler of a call listens on every transport.
AddListenerToAll(trans, t, c) ==
    [u \in DOMAIN trans |-> [trans[u] EXCEPT !.listeners = @ \cup {c}]]

\* connection.process.stdout.on('data', messageHandler) /
\* connection.ws.addEventListener('message', messageHandler)
AddListener(trans, t, c) == [trans EXCEPT ![t].listeners = @ \cup {c}]

\* invokeTool(toolName, parameters), up to the point where it returns its
\* promise. (Next counts a call against MaxObjects; PairNext does not.)
InvokeTool(toolId, args) ==
    /\ Len(calls) < MaxCalls
    /\ LET tool == LookupTool(toolId)
           conn == connections[tool.serverId]
           c == Len(calls) + 1
           call == NewCall(toolId, args)
       IN  IF tool = NoTool
           THEN /\ calls' = Append(calls, [call EXCEPT !.outcome = Rejected(ErrToolNotFound)])
                /\ UNCHANGED transports
           ELSE IF NotConnected(conn)
           THEN /\ calls' = Append(calls, [call EXCEPT !.outcome = Rejected(ErrNotConnected)])
                /\ UNCHANGED transports
           ELSE IF conn.handle = 0
           \* connection.process.stdout of a null handle throws in the executor,
           \* after the timer was armed
           THEN /\ calls' = Append(calls, [call EXCEPT !.id = DateNow, !.timer = TRUE,
                                                       !.outcome = Rejected(ErrTypeError)])
                /\ UNCHANGED transports
           ELSE /\ calls' = Append(calls, [call EXCEPT !.id = DateNow,
                                                       !.timer = TimerArmed(conn, transports),
                                                       !.t = conn.handle])
                /\ transports' =
                     SendMessage(connections,
                                 AddListener(transports, conn.handle, c),
                                 tool.serverId,
                                 Request(DateNow, "tools/call", tool.name, args, c))
    /\ replies' = Append(replies, NoReply)
    /\ UNCHANGED <<servers, connections, tools, clock, reconnected, withdrawn, agent>>

\* Mutant: the timer is due a millisecond early.
DeadlineEarly(call) == call.id + TimeoutMs - 1

\* The timer of a call is armed in the turn that takes its messageId from
\* Date.now(), so it is due TimeoutMs after that instant.
Deadline(call) == call.id + TimeoutMs

\* The timer callback of a call: reject with the timeout error.
OnTimeout(c) ==
    /\ c \in CallIds
    /\ calls[c].timer
    /\ clock >= Deadline(calls[c])
    /\ calls' = [calls EXCEPT ![c].timer = FALSE,
                              ![c].outcome = Settle(@, Rejected(ErrTimeout))]
    /\ UNCHANGED <<servers, connections, tools, transports, clock, replies, reconnected, withdrawn, agent>>

\* The instants of the clock the model observes: the start, a millisecond
\* later, and TimeoutMs after the start (the instant at which a timer armed
\* at the start is due and one armed a millisecond later is not).
Instants == {StartTime, StartTime + 1, StartTime + TimeoutMs}

\* Time passes, to a later instant.
Tick(now) ==
    /\ now \in Instants
    /\ now > clock
    /\ clock' = now
    /\ UNCHANGED <<servers, connections, tools, transports, calls, replies, reconnected, withdrawn, agent>>

\* Time passes until the timer of call c is due.
TimerDue(c) ==
    /\ c \in CallIds
    /\ calls[c].timer
    /\ clock < Deadline(calls[c])
    /\ clock' = Deadline(calls[c])
    /\ UNCHANGED <<servers, connections, tools, transports, calls, replies, reconnected, withdrawn, agent>>

----------------------------------------------------------------------------
(* Incoming data *)

\* What a listener is called with: stdout 'data' listeners get the chunk;
\* a listener added with ws.addEventListener('message', ...) gets an event
\* object that holds the data.
ListenerArg(proto, text) ==
    IF proto = "stdio" THEN [kind |-> "buffer", text |-> text]
                       ELSE [kind |-> "event", text |-> text]

\* data.toString(): the text of a buffer; "[object Object]" for an event.
DataToString(arg) == IF arg.kind = "buffer" THEN arg.text ELSE <<Fragment>>

\* Mutant: the messageHandler settles its call on any message it can parse.
MatchesAny(c, arg) == JsonParse(DataToString(arg)).ok

\* Does the messageHandler of call c settle it on this argument?
Matches(c, arg) ==
    LET r == JsonParse(DataToString(arg))
    IN  r.ok /\ r.m.id = calls[c].id

\* The messageHandler of call c, run on arg: the call afterwards.
MessageHandler(c, arg) ==
    LET r == JsonParse(DataToString(arg))
    IN  IF Matches(c, arg)
        THEN [calls[c] EXCEPT !.timer = FALSE,
                              !.outcome = Settle(@, IF r.m.isErr THEN Rejected(r.m.val)
                                                                 ELSE Resolved(r.m.val))]
        ELSE calls[c]

\* Is the parsed chunk a response to the initialize request?
IsHandshakeResponse(r) == r.ok /\ r.m.method = "" /\ r.m.id = HandshakeId

\* The history of withdrawn tools after the parsed chunk r arrived from
\* worker w: a tool list withdraws the registered tools of w it does not
\* name, and a tool it names is withdrawn no longer.
Withdrawn(w, r) ==
    IF r.ok /\ r.m.method = "tools/list"
    THEN (withdrawn \cup {id \in DOMAIN tools : id[1] = w /\ id[2] \notin r.m.tools})
            \ {ToolId(w, n) : n \in r.m.tools}
    ELSE withdrawn

\* A 'data' event of a process's stdout / a 'message' event of a socket,
\* carrying text: the connection's own listener (handleMessage) runs first,
\* then the messageHandler of every call listening on the transport.
OnData(t, text) ==
    /\ t \in TransportIds
    /\ \/ transports[t].st = "open"
       \/ transports[t].st = "exited"
    /\ (IsHandshakeResponse(JsonParse(text)) /\ ~transports[t].greeted)
          => Objects < MaxObjects
    /\ Withdrawn(transports[t].w, JsonParse(text)) \ withdrawn # {}
          => Objects < MaxObjects
    /\ LET tr == transports[t]
           r == JsonParse(text)
           arg == ListenerArg(tr.proto, text)
           hit == {c \in tr.listeners : Matches(c, arg)}
       IN  /\ tools' = IF r.ok THEN HandleMessage(tools, tr.w, r.m) ELSE tools
           /\ calls' = [c \in CallIds |->
                           IF c \in tr.listeners THEN MessageHandler(c, arg) ELSE calls[c]]
           /\ transports' = [transports EXCEPT ![t].listeners = @ \ hit,
                                              ![t].greeted = @ \/ IsHandshakeResponse(r)]
           /\ replies' = [c \in CallIds |->
                             IF /\ calls[c].t = t
                                /\ replies[c] = NoReply
                                /\ r.ok
                                /\ r.m.method = ""
                                /\ r.m.id = calls[c].id
                             THEN [k |-> IF r.m.isErr THEN "error" ELSE "result",
                                   v |-> r.m.val,
                                   pend |-> calls[c].outcome = Pending]
                             ELSE replies[c]]
           /\ withdrawn' = Withdrawn(tr.w, r)
    /\ UNCHANGED <<servers, connections, clock, reconnected, agent>>

\* What a worker may send on transport t: an answer to a request q it was
\* sent (a result or an error under q's id; the field call, which no handler
\* reads, names the request answered), a result under an id it was not sent
\* (the id of a call made on another transport), a tool list, or text that
\* is no JSON value.
ReplyTo(q, v) == [ResultMsg(q.id, v) EXCEPT !.call = q.call]
KnownIds == {HandshakeId} \cup {calls[c].id : c \in {d \in CallIds : calls[d].t # 0}}
WorkerMessages(t) ==
    LET sentIds == {q.id : q \in transports[t].sent}
    IN  {ReplyTo(q, v) : q \in transports[t].sent, v \in Values}
          \cup {ErrorMsg(i, e) : i \in sentIds, e \in ErrorTexts}
          \cup {ResultMsg(i, v) : i \in KnownIds \ sentIds, v \in Values}
          \cup {ToolsListMsg(ns) : ns \in SUBSET ToolNames}
Chunks(t) == {Stringify(m) : m \in WorkerMessages(t)} \cup {<<Fragment>>}

\* The 'data' chunks of an output stream need not be lines: a line can come
\* in two chunks, and two lines in one. A socket delivers whole messages.
SplitChunks(t) ==
    {<<HeadPiece(m)>> : m \in WorkerMessages(t)}
       \cup {<<TailPiece(m), NewLine>> : m \in WorkerMessages(t)}
JoinedChunks(t) == {Stringify(m1) \o Stringify(m2) : m1, m2 \in WorkerMessages(t)}
StreamChunks(t) ==
    IF transports[t].proto = "stdio" THEN SplitChunks(t) \cup JoinedChunks(t) ELSE {}

\* What the 'data' / 'message' listener of a connection passes to
\* handleMessage for a chunk: the value it parses, or nothing.
Received(text) == IF JsonParse(text).ok THEN <<JsonParse(text).m>> ELSE <<>>

----------------------------------------------------------------------------
(* getServerStatus *)

\* getServerStatus(): one entry for each entry of this.connections, with the
\* state and, by protocol, the host and port or the command and args of its
\* configuration.
GetServerStatus ==
    [w \in {x \in Workers : connections[x].status # "none"} |->
        [id |-> w,
         status |-> connections[w].status,
         protocol |-> connections[w].protocol,
         meta |-> IF connections[w].protocol = "ws" THEN {"host", "port"}
                                                   ELSE {"command", "args"}]]

----------------------------------------------------------------------------
(* reconnectToServer *)

\* connection.process.kill() / connection.ws.close()
Teardown(trans, conn) ==
    IF conn.handle # 0 THEN [trans EXCEPT ![conn.handle].killed = TRUE] ELSE trans

\* Mutant: a worker without an entry is given one from its configuration.
GetOrCreateConnection(conns, w) ==
    IF conns[w].status = "none" THEN Entry(0, servers[w], "disconnected") ELSE conns[w]

\* this.connections.get(serverId)
GetConnection(conns, w) == conns[w]

\* reconnectToServer up to its first suspension: the old transport is ended and
\* connectToServer runs with the configuration held by the connection entry.
Reconnect(w) ==
    /\ LET conn == GetConnection(connections, w)
       IN  IF conn.status = "none"
           THEN UNCHANGED <<connections, transports>>
           ELSE LET S == ConnectToServer([connections |-> connections,
                                          transports |-> Teardown(transports, conn)],
                                         conn.config)
                IN  /\ connections' = S.connections
                    /\ transports' = S.transports
    /\ reconnected' = IF connections[w].status = "none"
                      THEN reconnected \cup {w} ELSE reconnected

ReconnectToServer(w) ==
    /\ Len(transports) < MaxTransports
    /\ Objects < MaxObjects
    /\ Reconnect(w)
    /\ UNCHANGED <<servers, tools, calls, clock, replies, withdrawn, agent>>

----------------------------------------------------------------------------

Next ==
    \/ \E t \in TransportIds : OnOpen(t)
    \/ \E t \in TransportIds : OnError(t)
    \/ \E t \in TransportIds : OnExit(t)
    \/ \E t \in TransportIds : \E text \in Chunks(t) : OnData(t, text)
    \/ /\ Objects < MaxObjects
       /\ \E w \in Workers : \E n \in ToolNames : \E v \in ArgValues :
             InvokeTool(ToolId(w, n), v)
    \/ \E c \in CallIds : OnTimeout(c)
    \/ \E now \in Instants : Tick(now)
    \/ \E w \in Workers : ReconnectToServer(w)

Spec == Init /\ [][Next]_vars

\* The gateway under the scheduling of the runtime: time passes until an
\* armed timer is due, and the event loop runs the callback of every timer
\* that is due.
FairNext ==
    \/ \E t \in TransportIds : OnOpen(t)
    \/ \E t \in TransportIds : OnError(t)
    \/ \E t \in TransportIds : OnExit(t)
    \/ \E t \in TransportIds : \E text \in Chunks(t) : OnData(t, text)
    \/ /\ Objects < MaxObjects
       /\ \E w \in Workers : \E n \in ToolNames : \E v \in ArgValues :
             InvokeTool(ToolId(w, n), v)
    \/ \E c \in CallIds : OnTimeout(c)
    \/ \E c \in CallIds : TimerDue(c)
    \/ \E w \in Workers : ReconnectToServer(w)

FairSpec ==
    /\ Init
    /\ [][FairNext]_vars
    /\ \A c \in 1..MaxCalls : WF_vars(TimerDue(c)) /\ WF_vars(OnTimeout(c))

\* The gateway with output streams whose chunks are not lines.
StreamNext ==
    \/ Next
    \/ \E t \in TransportIds : \E text \in StreamChunks(t) : OnData(t, text)

StreamSpec == Init /\ [][StreamNext]_vars

\* Two started workers at work: both are enabled and well formed, and the
\* steps are those of opening, of calls, of incoming data and of time.
\* Calls are bounded by MaxCalls alone, so that each worker can have a
\* request in flight.
PairInit == Init /\ \A w \in Workers : servers[w].enabled /\ servers[w].wellFormed

PairNext ==
    \/ \E t \in TransportIds : OnOpen(t)
    \/ \E t \in TransportIds : \E text \in Chunks(t) : OnData(t, text)
    \/ \E w \in Workers : \E n \in ToolNames : \E v \in ArgValues : InvokeTool(ToolId(w, n), v)
    \/ \E c \in CallIds : OnTimeout(c)
    \/ \E now \in Instants : Tick(now)

PairSpec == PairInit /\ [][PairNext]_vars

----------------------------------------------------------------------------
(* AgentService: the text of the model output and its parsing *)

Providers == {"openai", "google"}
Questions == {"q1"}
Contents == {"c1"}
Cities == {"Paris", "Rome"}

\* A string that encodeURIComponent rejects (a lone surrogate).
Malformed == "malformed"

\* A name that \w+ matches holds no ':'; it is written as a tool id without
\* a worker, so that it can be compared with the ids `${serverId}:${name}`.
BareName(n) == ToolId("", n)

GetWeather == BareName("get_weather")

\* A tool-call expression name(k="v", ...) as it stands in the text; the name
\* may be written with its worker, as in w1:a(...).
Expr(w, n, params) == [server |-> w, name |-> n, params |-> params]
Param(k, v) == [k |-> k, v |-> v]
WeatherExpr(city) == Expr("", "get_weather", <<Param("city", city)>>)

\* The expressions the model may write: the built-in tool for a city, for
\* a malformed one and for none (city=""), a worker's tool by its bare name
\* and by its full id, and a tool nobody has.
NoCity == ""
Exprs ==
    {WeatherExpr(c) : c \in Cities \cup {Malformed, NoCity}}
      \cup {Expr(w, "a", <<Param("x", "p")>>) : w \in {"", "w1"}}
      \cup {Expr("", "zz", <<>>)}

\* A line of text is the sequence of the expressions on it (none: text that
\* holds no expression).
Lines ==
    {<<>>} \cup {<<e>> : e \in Exprs}
           \cup {<<WeatherExpr("Paris"), WeatherExpr("Rome")>>}

\* The content of a ```tool_code block: one line, or two.
Blocks ==
    {<<l>> : l \in Lines}
      \cup {<<<<WeatherExpr("Paris")>>, <<WeatherExpr("Rome")>>>>,
            <<<<>>, <<WeatherExpr("Paris")>>>>}

\* A piece of the output: a ```tool_code fenced block, or text outside any
\* fence (here with an expression in it).
Fenced(b) == [fenced |-> TRUE, lines |-> b]
Plain(l) == [fenced |-> FALSE, lines |-> <<l>>]
Pieces == {Fenced(b) : b \in Blocks} \cup {Plain(<<WeatherExpr("Paris")>>)}

\* The outputs of the model: up to MaxPieces pieces.
MaxPieces == 2
Outputs == UNION {[1..n -> Pieces] : n \in 0..MaxPieces}

\* The expressions that stand in a text, fenced or not, in order.
RECURSIVE Flatten(_)
Flatten(seqs) == IF seqs = <<>> THEN <<>> ELSE Head(seqs) \o Flatten(Tail(seqs))
ExprsIn(output) == Flatten([p \in 1..Len(output) |-> Flatten(output[p].lines)])

\* The loop with /```tool_code\s*\n([^`]+?)\n```/gs: the contents of the
\* fenced blocks, in order.
ToolCallsIn(output) ==
    LET blocks == SelectSeq(output, LAMBDA p : p.fenced)
    IN  [b \in 1..Len(blocks) |-> blocks[b].lines]

\* toolCall.match(/(\w+)\((.*)\)/): the leftmost name followed by '(' and
\* the text up to the last ')' of that line ('.' matches no line break).
\* The name is a bare one: of w1:a( the match is a(.
NoMatch == [ok |-> FALSE, name |-> BareName(""), paramsStr |-> <<>>]
ToolMatch(toolCall) ==
    LET with == {l \in 1..Len(toolCall) : toolCall[l] # <<>>}
    IN  IF with = {} THEN NoMatch
        ELSE LET line == toolCall[CHOOSE l \in with : \A m \in with : l <= m]
             IN  [ok |-> TRUE,
                  name |-> BareName(line[1].name),
                  paramsStr |-> Flatten([e \in 1..Len(line) |-> line[e].params])]

\* The loop with /(\w+)="([^"]+)"/g: params[key] = value for every key="value"
\* with a value that is not empty, a later one replacing an earlier one.
ParseParams(paramsStr) ==
    LET found == {p \in 1..Len(paramsStr) : paramsStr[p].v # ""}
    IN  [key \in {paramsStr[p].k : p \in found} |->
            paramsStr[CHOOSE p \in found :
                        /\ paramsStr[p].k = key
                        /\ \A q \in found : paramsStr[q].k = key => q <= p].v]

----------------------------------------------------------------------------
(* AgentService: the tools and their functions *)

\* The texts a tool execution leaves in the results.
WeatherJson(city) == [k |-> "weather", v |-> city]
FetchError == [k |-> "fetchError", v |-> ""]
ResultJson(v) == [k |-> "json", v |-> v]
InvokeError(e) == [k |-> "invokeError", v |-> e]
NotFoundText(name) == [k |-> "notFound", v |-> name[2]]
ExecError(e) == [k |-> "execError", v |-> e]

Returned(text) == [threw |-> FALSE, text |-> text]
Threw(e) == [threw |-> TRUE, text |-> ExecError(e)]

\* createTools(): one tool per entry of mcpService.getAvailableTools(),
\* named by its id (tool.fullName), and the built-in get_weather.
GetAvailableTools(reg) == {reg[id].fullName : id \in DOMAIN reg}
CreateTools(reg) == GetAvailableTools(reg) \cup {GetWeather}

\* How mcpService.invokeTool(id, input) can settle: rejected at once when
\* the tool or the connection is missing; otherwise by what the worker
\* answers, or by the timeout (a socket worker's answer never settles it).
GatewayOutcomes(toolId) ==
    LET tool == LookupTool(toolId)
        conn == connections[tool.serverId]
    IN  IF tool = NoTool THEN {Rejected(ErrToolNotFound)}
        ELSE IF NotConnected(conn) THEN {Rejected(ErrNotConnected)}
        ELSE IF conn.handle = 0 THEN {Rejected(ErrTypeError)}
        ELSE IF conn.protocol = "stdio"
             THEN {Resolved(v) : v \in Values}
                    \cup {Rejected(e) : e \in ErrorTexts} \cup {Rejected(ErrTimeout)}
             ELSE {Rejected(ErrTimeout)}

\* func of a worker's tool: the result as JSON, or the text of the failure.
McpToolFunc(toolId) ==
    {Returned(IF o.k = "resolved" THEN ResultJson(o.v) ELSE InvokeError(o.v)) :
        o \in GatewayOutcomes(toolId)}

\* func of get_weather: the report, or the text of a failed fetch; on a city
\* that encodeURIComponent rejects its catch block reads cityName, which is
\* declared inside the try block, and throws.
CityName(params) ==
    IF "city" \in DOMAIN params THEN params["city"]
    ELSE IF "location" \in DOMAIN params THEN params["location"]
    ELSE "undefined"
WeatherFunc(params) ==
    IF CityName(params) = Malformed
    THEN {Threw("cityName is not defined")}
    ELSE {Returned(WeatherJson(CityName(params))), Returned(FetchError)}

\* tool.func(params) of the tool named name: the ways it can end.
ToolFunc(name, params) ==
    IF name = GetWeather THEN WeatherFunc(params) ELSE McpToolFunc(name)

----------------------------------------------------------------------------
(* AgentService: processMessage and executeToolsFromResponse *)

Done(ag, result) == [ag EXCEPT !.pc = "done", !.result = result]

\* Mutant: the outer catch lets the error go on to the caller, who gets no
\* result object.
OuterCatchRethrows(e) == NoResult

\* catch (error) of processMessage: { success: false, error: errorMessage }
OuterCatch(e) == Failure(e)

\* processMessage(provider, message) up to agent.invoke: without an agent
\* for the provider it answers in demo mode (no agent at all) or fails.
ProcessMessage(provider, message) ==
    /\ agent.pc = "idle"
    /\ agent' =
         LET ag == [agent EXCEPT !.provider = provider, !.message = message]
         IN  IF provider \in agent.agents THEN [ag EXCEPT !.pc = "invoking"]
             ELSE IF agent.agents = {} THEN Done(ag, Success(DemoNotice, <<>>))
             ELSE Done(ag, OuterCatch("Agent not available"))
    /\ UNCHANGED <<servers, connections, tools, transports, calls, clock, replies,
                   reconnected, withdrawn>>

\* executeToolsFromResponse(response, ...) up to its loop: null when the
\* text holds no tool_code block, and processMessage then answers with the
\* text itself (the executor returns no intermediate steps, so
\* extractToolsUsed gives no entry).
ScanResponse(ag, output) ==
    LET toolCalls == ToolCallsIn(output)
    IN  IF toolCalls = <<>>
        THEN Done(ag, Success(Raw(output), <<>>))
        ELSE [ag EXCEPT !.pc = "tools", !.raw = output, !.toolCalls = toolCalls, !.i = 1]

\* agent.invoke(input) returned result.output = output.
AgentReturns(output) ==
    /\ agent.pc = "invoking"
    /\ agent' = ScanResponse(agent, output)
    /\ UNCHANGED <<servers, connections, tools, transports, calls, clock, replies,
                   reconnected, withdrawn>>

\* Mutant: an error of agent.invoke is answered as a success without text.
AgentErrorAnswered == Success(NoText, <<>>)

\* { success: false, error: `Agent execution failed: ${agentError.message}` }
AgentError == Failure("Agent execution failed")

\* POST /chat: what the route sends for the result of processMessage.
PostChat(result) ==
    IF result.success
    THEN [status |-> 200, success |-> TRUE, response |-> result.response,
          toolsUsed |-> result.toolsUsed, error |-> ""]
    ELSE [status |-> 500, success |-> FALSE, response |-> NoText,
          toolsUsed |-> <<>>, error |-> result.error]

\* agent.invoke(input) threw: a parsing error of the framework carries the
\* model's text after 'Could not parse LLM output: ', which is used as the
\* output unless it is empty; any other error fails the turn.
AgentThrows(parsing, output) ==
    /\ agent.pc = "invoking"
    /\ agent' = IF parsing /\ output # <<>>
                THEN ScanResponse(agent, output)
                ELSE Done(agent, AgentError)
    /\ UNCHANGED <<servers, connections, tools, transports, calls, clock, replies,
                   reconnected, withdrawn>>

\* What one pass of the loop adds for toolCall when its tool function ends
\* as outcome: an entry of toolsUsed and of toolResults for a tool that was
\* found and returned; of toolResults alone for a tool that was not found or
\* whose function threw; nothing for a block without an expression.
Executed(name, params, text) == [tool |-> name, input |-> params, output |-> text]
ResultOf(name, text) == [tool |-> name, result |-> text]
Unknown == BareName("unknown")

\* Mutant: a tool that is not found leaves no entry.
NotFoundSkipped(name) == <<>>

\* toolResults.push({tool, result: `Tool ${toolName} not found`})
NotFoundResults(name) == <<ResultOf(name, NotFoundText(name))>>

\* Mutant: the loop ends at a call whose tool failed.
NextCallAbort(ag, failed) == IF failed THEN Len(ag.toolCalls) + 1 ELSE ag.i + 1

\* for (const toolCall of toolCalls): the next call, whatever became of this one.
NextCall(ag, failed) == ag.i + 1

IsFailure(text) == text.k \in {"fetchError", "invokeError", "notFound", "execError"}

\* One pass of the loop: the call ag.i is parsed, its tool is looked up by
\* name among createTools() and run.
ExecuteToolCall ==
    /\ agent.pc = "tools"
    /\ agent.i <= Len(agent.toolCalls)
    /\ LET m == ToolMatch(agent.toolCalls[agent.i])
           params == ParseParams(m.paramsStr)
       IN  IF ~m.ok
           THEN agent' = [agent EXCEPT !.i = NextCall(agent, FALSE)]
           ELSE IF m.name \notin CreateTools(tools)
           THEN agent' = [agent EXCEPT !.toolResults = @ \o NotFoundResults(m.name),
                                       !.i = NextCall(agent, TRUE)]
           ELSE \E o \in ToolFunc(m.name, params) :
                   agent' =
                     IF o.threw
                     THEN [agent EXCEPT !.toolResults = Append(@, ResultOf(Unknown, o.text)),
                                        !.i = NextCall(agent, TRUE)]
                     ELSE [agent EXCEPT
                             !.toolsUsed = Append(@, Executed(m.name, params, o.text)),
                             !.toolResults = Append(@, ResultOf(m.name, o.text)),
                             !.i = NextCall(agent, IsFailure(o.text))]
    /\ UNCHANGED <<servers, connections, tools, transports, calls, clock, replies,
                   reconnected, withdrawn>>

\* contextPrompt: the original question and the text of all tool results.
ContextPrompt(ag) == [question |-> ag.message, summary |-> ag.toolResults]

\* Mutant: the model is called once more for every tool result gathered.
FollowUpPerResult(ag) ==
    <<ContextPrompt(ag)>> \o [r \in 1..Len(ag.toolResults) |-> ContextPrompt(ag)]

\* The model calls made after the loop: one, with the context prompt.
FollowUpCalls(ag) == <<ContextPrompt(ag)>>

\* Mutant: the fallback answers with the text alone.
FallbackNoTrace(ag) == Success(Raw(ag.raw), <<>>)

\* catch (llmError): { response: response, toolsUsed: toolsUsed, ... }, which
\* processMessage returns with success: true.
Fallback(ag) == Success(Raw(ag.raw), ag.toolsUsed)

\* After the loop: the follow-up model call (the provider's model exists, as
\* its agent does). Its content is the answer; when it throws, the answer is
\* the text the tools were read from. Either way with the tools used.
FollowUp(replied, content) ==
    /\ agent.pc = "tools"
    /\ agent.i > Len(agent.toolCalls)
    /\ agent' =
         LET ag == [agent EXCEPT !.followUps = @ \o FollowUpCalls(agent)]
         IN  IF replied THEN Done(ag, Success(Content(content), ag.toolsUsed))
                        ELSE Done(ag, Fallback(ag))
    /\ UNCHANGED <<servers, connections, tools, transports, calls, clock, replies,
                   reconnected, withdrawn>>

\* The states of MCPService a turn is observed in: the process worker has
\* connected and may have exited since, and may have advertised its tools;
\* the socket worker is still being dialled.
AgentInit ==
    /\ servers = [w \in Workers |->
                    [id |-> w, protocol |-> ProtocolOf(w), enabled |-> TRUE, wellFormed |-> TRUE,
                     port |-> FirstPort]]
    /\ \E up \in BOOLEAN :
          /\ transports =
               <<[NewTransport(servers["w1"]) EXCEPT !.st = IF up THEN "open" ELSE "exited",
                                                    !.sent = {InitializeMsg}],
                 NewTransport(servers["w2"])>>
          /\ connections =
               [w \in Workers |->
                   IF w # "w1" THEN NoConnection
                   ELSE IF up THEN Entry(1, servers[w], "connected")
                   ELSE Entry(0, servers[w], "disconnected")]
    /\ tools \in {<<>>, UpdateTools(<<>>, "w1", ToolNames)}
    /\ calls = <<>>
    /\ replies = <<>>
    /\ reconnected = {}
    /\ withdrawn = {}
    /\ clock = StartTime
    /\ agent \in {IdleAgent(A) : A \in SUBSET Providers}

AgentNext ==
    \/ \E p \in Providers : \E q \in Questions : ProcessMessage(p, q)
    \/ \E output \in Outputs : AgentReturns(output)
    \/ \E parsing \in BOOLEAN : \E output \in Outputs : AgentThrows(parsing, output)
    \/ ExecuteToolCall
    \/ \E replied \in BOOLEAN : \E c \in Contents : FollowUp(replied, c)

AgentSpec == AgentInit /\ [][AgentNext]_vars

----------------------------------------------------------------------------
(* Properties *)

\* The call a step of invokeTool adds.
Invoked == Len(calls') = Len(calls) + 1
NewestCall == calls'[Len(calls')]

\* C1: invokeTool on a tool id that is not in the tool registry rejects with
\* 'tool not found'; nothing is written to any transport, no response handler
\* is registered and no timer is armed.
C1_ToolNotFound ==
    [][(Invoked /\ NewestCall.tool \notin DOMAIN tools)
         => /\ NewestCall.outcome = Rejected(ErrToolNotFound)
            /\ ~NewestCall.timer
            /\ NewestCall.t = 0
            /\ transports' = transports]_vars

\* A call was rejected with 'tool not found' while another worker had
\* registered a tool of the same name.
C1_Witness ==
    \E c \in CallIds :
        /\ calls[c].outcome = Rejected(ErrToolNotFound)
        /\ calls[c].tool \notin DOMAIN tools
        /\ DOMAIN tools # {}

\* C2: invokeTool on a registered tool whose worker has no connection entry,
\* or an entry whose status is not 'connected', rejects with 'not connected'
\* and writes nothing to any transport.
C2_NotConnected ==
    [][(/\ Invoked
        /\ NewestCall.tool \in DOMAIN tools
        /\ connections[tools[NewestCall.tool].serverId].status # "connected")
         => /\ NewestCall.outcome = Rejected(ErrNotConnected)
            /\ ~NewestCall.timer
            /\ transports' = transports]_vars

\* A call was rejected with 'not connected' on a worker that had exited.
C2_Witness ==
    \E c \in CallIds :
        /\ calls[c].outcome = Rejected(ErrNotConnected)
        /\ connections[calls[c].tool[1]].status = "disconnected"

\* The request of call c was written to its transport.
RequestSent(c) ==
    /\ calls[c].t # 0
    /\ \E q \in transports[calls[c].t].sent : q.call = c

\* C3: when invokeTool has sent a request with id i and the owning transport
\* then delivers a message with id i and result V, the call resolves with
\* exactly V.
C3_RoundTrip ==
    \A c \in CallIds :
        (RequestSent(c) /\ replies[c].k = "result" /\ replies[c].pend)
            => calls[c].outcome = Resolved(replies[c].v)

\* The round trip on a process worker: its messageHandler gets the chunk.
RoundTripOnProcess ==
    \A c \in CallIds :
        (/\ RequestSent(c)
         /\ transports[calls[c].t].proto = "stdio"
         /\ replies[c].k = "result" /\ replies[c].pend)
            => calls[c].outcome = Resolved(replies[c].v)

\* C4: with requests A then B pending on the same worker, the delivery of
\* B's response resolves B with the result it carries and leaves A pending.
C4_OutOfOrder ==
    [][\A t \in TransportIds : \A a, b \in CallIds : \A v \in Values :
          (/\ a < b
           /\ calls[a].t = t /\ calls[b].t = t
           /\ calls[a].outcome = Pending /\ calls[b].outcome = Pending
           /\ \E q \in transports[t].sent :
                 q.call = b /\ OnData(t, Stringify(ReplyTo(q, v))))
            => /\ calls'[b].outcome = Resolved(v)
               /\ calls'[a].outcome = Pending]_vars

\* C5: two calls pending at the same time on the same connection never carry
\* the same request id.
C5_UniqueIds ==
    \A a, b \in CallIds :
        (/\ a # b
         /\ calls[a].t # 0 /\ calls[a].t = calls[b].t
         /\ calls[a].outcome = Pending /\ calls[b].outcome = Pending)
            => calls[a].id # calls[b].id

\* C6: a pending call keeps its timer armed; it is rejected with the timeout
\* error by the timer callback, which runs no earlier than TimeoutMs after
\* the request; once rejected by the timeout it stays so, whatever is
\* delivered later.
C6_Timeout ==
    [][\A c \in CallIds :
          /\ calls[c].outcome = Pending => calls[c].timer
          /\ (calls[c].outcome # Rejected(ErrTimeout)
                /\ calls'[c].outcome = Rejected(ErrTimeout))
               => /\ calls[c].outcome = Pending
                  /\ clock >= calls[c].id + TimeoutMs
          /\ (OnTimeout(c) /\ calls[c].outcome = Pending)
               => calls'[c].outcome = Rejected(ErrTimeout)
          /\ calls[c].outcome = Rejected(ErrTimeout)
               => calls'[c].outcome = Rejected(ErrTimeout)]_vars

\* A call on a process worker timed out, and its response was delivered
\* afterwards.
C6_Witness ==
    \E c \in CallIds :
        /\ calls[c].outcome = Rejected(ErrTimeout)
        /\ transports[calls[c].t].proto = "stdio"
        /\ replies[c].k = "result"
        /\ ~replies[c].pend

\* C7: the outcome of a call is decided once: after it is resolved or
\* rejected no response, duplicate, error or timeout changes it.
C7_SettledOnce ==
    [][\A c \in CallIds :
          calls[c].outcome # Pending => calls'[c].outcome = calls[c].outcome]_vars

\* A call was resolved by its response and the time of its timeout has come;
\* another was rejected by its timeout and an error response came later.
C7_Witness ==
    \/ \E c \in CallIds :
          /\ calls[c].outcome.k = "resolved"
          /\ clock >= calls[c].id + TimeoutMs
    \/ \E c \in CallIds :
          /\ calls[c].outcome = Rejected(ErrTimeout)
          /\ replies[c].k = "error"

\* C8: after a reconnect that tore down the old transport, the recorded
\* state of the worker ends in Connected: once the re-opened transport is
\* the connected one, only its own events
\* (or a later reconnect's open) change the worker's entry; and a call
\* pending on the old transport is not touched by data of another transport
\* and is not settled twice.
C8_Reconnect ==
    [][/\ \A w \in Workers :
            LET h == connections[w].handle
            IN  (/\ connections[w].status = "connected"
                 /\ \E t \in TransportIds :
                       t < h /\ transports[t].w = w /\ transports[t].killed
                 /\ connections'[w] # connections[w])
                  => \/ OnExit(h)
                     \/ OnError(h)
                     \/ \E t \in TransportIds : t > h /\ OnOpen(t)
       /\ \A c \in CallIds : \A t \in TransportIds :
            (t # calls[c].t /\ \E text \in Chunks(t) : OnData(t, text))
              => calls'[c] = calls[c]
       /\ \A c \in CallIds :
            calls[c].outcome # Pending => calls'[c].outcome = calls[c].outcome]_vars

\* C9: the recorded status of a worker changes only along the transitions of
\* the lifecycle state machine ("none", no entry yet, standing for
\* Disconnected/Connecting before the first transport opened).
AllowedTransitions ==
    { <<"none", "connected">>, <<"none", "failed">>,
      <<"connected", "disconnected">>, <<"connected", "error">>,
      <<"disconnected", "connected">>, <<"error", "connected">>,
      <<"failed", "connected">>,
      <<"disconnected", "failed">>, <<"error", "failed">> }

C9_Transitions ==
    [][\A w \in Workers :
          connections'[w].status # connections[w].status
            => <<connections[w].status, connections'[w].status>> \in AllowedTransitions]_vars

\* C10: connectToServer opens no transport for a worker that has a transport
\* being opened or open and not torn down.
C10_OpenIdempotent ==
    [][\A w \in Workers :
          (/\ Len(transports') = Len(transports) + 1
           /\ transports'[Len(transports')].w = w)
            => ~ \E t \in TransportIds :
                    /\ transports'[t].w = w
                    /\ transports'[t].st \in {"opening", "open"}
                    /\ ~transports'[t].killed]_vars

\* A transport is live while its process runs or is being spawned (its
\* socket is open or being dialled) and it was not told to stop.
Live(tr) == tr.st \in {"opening", "open"} /\ ~tr.killed

\* C11: at most one live transport exists per worker at any time: reconnect
\* tears the existing transport down before it opens a new one, so no two
\* transports of one worker are live together.
C11_OneLiveTransport ==
    \A w \in Workers :
        Cardinality({t \in TransportIds : transports[t].w = w /\ Live(transports[t])}) <= 1


C13_HandshakeFirst ==
    [][\A t \in TransportIds :
          /\ (transports[t].st = "opening" /\ transports'[t].st = "open")
                => transports'[t].sent = {InitializeMsg}
          /\ \A q \in transports'[t].sent \ transports[t].sent :
                q # InitializeMsg => transports[t].greeted]_vars

\* The first half of C13: the step that opens a transport sends the
\* initialize request on it.
HandshakeSentOnOpen ==
    [][\A t \in TransportIds :
          (transports[t].st = "opening" /\ transports'[t].st = "open")
            => transports'[t].sent = {InitializeMsg}]_vars

\* The tool ids in registry reg that worker w owns.
ToolsOf(reg, w) == {id \in DOMAIN reg : reg[id].serverId = w}

\* C14: the delivery of a tool list from a worker leaves that worker owning
\* exactly the tools the list names, and the tools of other workers as they
\* were.
C14_ReplaceWholesale ==
    [][\A t \in TransportIds : \A ns \in SUBSET ToolNames :
          OnData(t, Stringify(ToolsListMsg(ns)))
            => LET w == transports[t].w
               IN  /\ ToolsOf(tools', w) = {ToolId(w, n) : n \in ns}
                   /\ \A v \in Workers \ {w} :
                         /\ ToolsOf(tools', v) = ToolsOf(tools, v)
                         /\ \A id \in ToolsOf(tools, v) : tools'[id] = tools[id]]_vars

\* The part of C14 that holds: after the delivery the worker owns every
\* tool the list names, and the tools of other workers are as they were.
ToolListAdds ==
    [][\A t \in TransportIds : \A ns \in SUBSET ToolNames :
          OnData(t, Stringify(ToolsListMsg(ns)))
            => LET w == transports[t].w
               IN  /\ {ToolId(w, n) : n \in ns} \subseteq ToolsOf(tools', w)
                   /\ \A v \in Workers \ {w} :
                         /\ ToolsOf(tools', v) = ToolsOf(tools, v)
                         /\ \A id \in ToolsOf(tools, v) : tools'[id] = tools[id]]_vars

----------------------------------------------------------------------------
(* Properties of the orchestration turn *)

\* A pass of the loop of executeToolsFromResponse, and the step that ends
\* the turn after the loop.
LoopStep == agent.pc = "tools" /\ agent'.pc = "tools" /\ agent' # agent
EndStep == agent.pc = "tools" /\ agent'.pc = "done"

\* The match of the call the loop is at.
CurrentMatch == ToolMatch(agent.toolCalls[agent.i])

\* The expressions in the tool_code blocks of the turn, in order.
FencedExprs == Flatten([b \in 1..Len(agent.toolCalls) |-> Flatten(agent.toolCalls[b])])

\* C15: a turn whose model output holds no tool-call expression ends at once
\* with that output as the answer, an empty tool trace and no follow-up
\* model call.
C15_NoCallVerbatim ==
    [][\A output \in Outputs :
          (AgentReturns(output) /\ ExprsIn(output) = <<>>)
            => /\ agent'.pc = "done"
               /\ agent'.result = Success(Raw(output), <<>>)
               /\ agent'.followUps = <<>>]_vars

\* What holds of C15: an output without a tool_code block is the answer.
NoBlockVerbatim ==
    [][\A output \in Outputs :
          (AgentReturns(output) /\ ToolCallsIn(output) = <<>>)
            => /\ agent'.pc = "done"
               /\ agent'.result = Success(Raw(output), <<>>)
               /\ agent'.followUps = <<>>]_vars

\* C16: a turn whose output holds two expressions of get_weather, each for a
\* city, ends with a trace of exactly two entries, in the order of the
\* text, each with the tool name and the arguments of its expression.
C16_TwoCalls ==
    (/\ agent.pc = "done"
     /\ Len(FencedExprs) = 2
     /\ \A j \in 1..2 : FencedExprs[j] \in {WeatherExpr(c) : c \in Cities})
      => /\ Len(agent.result.toolsUsed) = 2
         /\ \A j \in 1..2 :
               /\ agent.result.toolsUsed[j].tool = GetWeather
               /\ agent.result.toolsUsed[j].input = ParseParams(FencedExprs[j].params)

\* What holds of C16: two blocks, each one line with one such expression.
TwoBlocksInOrder ==
    (/\ agent.pc = "done"
     /\ Len(agent.toolCalls) = 2
     /\ \A b \in 1..2 : \E c \in Cities : agent.toolCalls[b] = <<<<WeatherExpr(c)>>>>)
      => /\ Len(agent.result.toolsUsed) = 2
         /\ \A j \in 1..2 :
               /\ agent.result.toolsUsed[j].tool = GetWeather
               /\ agent.result.toolsUsed[j].input = ParseParams(agent.toolCalls[j][1][1].params)

\* C17: a call that names a tool a worker has advertised, by the tool's bare
\* name, is run through mcpService.invokeTool: the pass of the loop records
\* the result of the invocation, or the text of its failure.
C17_ResolvedByBareName ==
    [][(/\ LoopStep
        /\ CurrentMatch.ok
        /\ \E id \in DOMAIN tools : tools[id].name = CurrentMatch.name[2])
         => /\ Len(agent'.toolResults) = Len(agent.toolResults) + 1
            /\ agent'.toolResults[Len(agent'.toolResults)].result.k
                  \in {"json", "invokeError"}]_vars

\* The calls of the turn that hold an expression, and those among them whose
\* tool is not found.
ParsedCalls == {j \in 1..Len(agent.toolCalls) : ToolMatch(agent.toolCalls[j]).ok}
Unresolved == {j \in ParsedCalls : ToolMatch(agent.toolCalls[j]).name \notin CreateTools(tools)}

\* C18: a call whose tool is not found does not end the turn: the pass
\* records 'tool not found' for it and goes on to the next call, and the
\* follow-up model call is made, with that record in its summary.
C18_NotFoundRecorded ==
    [][/\ (LoopStep /\ agent.i \in Unresolved)
            => /\ agent'.toolResults =
                    Append(agent.toolResults,
                           ResultOf(CurrentMatch.name, NotFoundText(CurrentMatch.name)))
               /\ agent'.i = agent.i + 1
       /\ (agent.pc = "tools" /\ agent.i \in Unresolved) => ~EndStep
       /\ (EndStep /\ Unresolved # {})
            => /\ Len(agent'.followUps) = 1
               /\ \A j \in Unresolved :
                     \E r \in 1..Len(agent'.followUps[1].summary) :
                        agent'.followUps[1].summary[r] =
                           ResultOf(ToolMatch(agent.toolCalls[j]).name,
                                    NotFoundText(ToolMatch(agent.toolCalls[j]).name))]_vars

\* A turn has ended whose first call named a tool nobody has and whose
\* second call was executed.
C18_Witness ==
    /\ agent.pc = "done"
    /\ Len(agent.toolResults) = 2
    /\ agent.toolResults[1].result.k = "notFound"
    /\ agent.toolResults[2].result.k = "weather"
    /\ Len(agent.followUps) = 1

C20_OneFollowUp ==
    [][/\ agent.pc = "tools" => agent.followUps = <<>>
       /\ EndStep
            => /\ agent.i > Len(agent.toolCalls)
               /\ agent'.followUps =
                    <<[question |-> agent.message, summary |-> agent.toolResults]>>
       /\ agent.pc = "done" => agent'.followUps = agent.followUps
       /\ (agent.pc = "invoking" /\ agent'.pc = "done") => agent'.followUps = <<>>]_vars

\* A turn has ended after two executed tools and one follow-up call whose
\* prompt holds the question and both results.
C20_Witness ==
    /\ agent.pc = "done"
    /\ Len(agent.toolsUsed) = 2
    /\ Len(agent.followUps) = 1
    /\ agent.followUps[1].question = agent.message
    /\ Len(agent.followUps[1].summary) = 2
    /\ agent.result.response.k = "content"

\* The entries of toolResults that a tool returned (not the notes of a tool
\* that was not found or whose function threw).
Gathered(ag) ==
    {j \in 1..Len(ag.toolResults) : ag.toolResults[j].result.k \notin {"notFound", "execError"}}

\* C21: when the follow-up model call fails after the loop, the turn still
\* succeeds: its answer is the first model output, and its tool trace is the
\* trace the loop built, which holds the result of every tool that returned
\* one. (The provider's model is always obtained: getModel fails only for a
\* provider without a model, and such a provider has no agent.)
C21_FallbackKeepsTrace ==
    [][EndStep =>
         /\ agent'.result.success
         /\ agent'.result.toolsUsed = agent.toolsUsed
         /\ agent'.result.response.k # "content"
               => agent'.result.response = Raw(agent.raw)
         /\ \A j \in Gathered(agent) :
               \E u \in 1..Len(agent'.result.toolsUsed) :
                  /\ agent'.result.toolsUsed[u].tool = agent.toolResults[j].tool
                  /\ agent'.result.toolsUsed[u].output = agent.toolResults[j].result]_vars

\* A turn has ended on the fallback after a tool returned its report: the
\* answer is the first output and the report is in the trace.
C21_Witness ==
    /\ agent.pc = "done"
    /\ Len(agent.followUps) = 1
    /\ agent.result.response = Raw(agent.raw)
    /\ Len(agent.result.toolsUsed) >= 1
    /\ \E u \in 1..Len(agent.result.toolsUsed) : agent.result.toolsUsed[u].output.k = "weather"

\* agent.invoke threw an error that carries no model output: the model call
\* itself failed.
InvokeFailed == \E parsing \in BOOLEAN : \E output \in Outputs :
                   /\ ~(parsing /\ output # <<>>)
                   /\ AgentThrows(parsing, output)

\* C22: when the first model call of a turn fails, the turn ends there with
\* success = false and an error message, which the route passes on to the
\* caller with status 500; no tool has run and no follow-up call is made.
C22_FirstCallFails ==
    [][InvokeFailed =>
         /\ agent'.pc = "done"
         /\ ~agent'.result.success
         /\ agent'.result.error = "Agent execution failed"
         /\ PostChat(agent'.result).status = 500
         /\ ~PostChat(agent'.result).success
         /\ PostChat(agent'.result).error = agent'.result.error
         /\ agent'.toolsUsed = <<>> /\ agent'.toolResults = <<>>
         /\ agent'.followUps = <<>>]_vars

\* A turn has ended with the error of a failed first model call.
C22_Witness ==
    /\ agent.pc = "done"
    /\ agent.provider \in agent.agents
    /\ agent.result = Failure("Agent execution failed")
    /\ agent.toolResults = <<>>
    /\ agent.followUps = <<>>

\* Transport t delivers an answer m, under the id of call c, while c is
\* pending on t.
Answered(t, c, m) ==
    /\ calls[c].t = t
    /\ calls[c].outcome = Pending
    /\ m \in WorkerMessages(t)
    /\ m.method = "" /\ m.id = calls[c].id
    /\ OnData(t, Stringify(m))

\* C23: a message whose id is that of a pending request settles it: with its
\* error as the rejection when it carries one, with its result otherwise.
C23_ErrorOrResult ==
    [][\A t \in TransportIds : \A c \in CallIds :
          \A m \in {ResultMsg(calls[c].id, v) : v \in Values}
                    \cup {ErrorMsg(calls[c].id, e) : e \in ErrorTexts} :
             Answered(t, c, m)
                => calls'[c].outcome = IF m.isErr THEN Rejected(m.val)
                                                  ELSE Resolved(m.val)]_vars

\* The same on a process worker, whose messageHandler gets the chunk.
ErrorOrResultOnProcess ==
    [][\A t \in TransportIds : \A c \in CallIds :
          \A m \in {ResultMsg(calls[c].id, v) : v \in Values}
                    \cup {ErrorMsg(calls[c].id, e) : e \in ErrorTexts} :
             (transports[t].proto = "stdio" /\ Answered(t, c, m))
                => calls'[c].outcome = IF m.isErr THEN Rejected(m.val)
                                                  ELSE Resolved(m.val)]_vars

\* Call c was sent to a worker other than the one transport t belongs to.
OtherWorker(c, t) == calls[c].t # 0 /\ transports[calls[c].t].w # transports[t].w

\* C24: whatever a worker's transport delivers, a request sent to another
\* worker is left as it was (pending, its timer armed, its handler listening),
\* also when the data is a response under that request's id: a step that
\* changes the request or its handler is no delivery on that transport.
C24_NoInterference ==
    [][\A t \in TransportIds : \A c \in CallIds :
          (/\ OtherWorker(c, t)
           /\ \/ calls'[c] # calls[c]
              \/ transports'[calls[c].t].listeners # transports[calls[c].t].listeners)
             => \A text \in Chunks(t) : ~OnData(t, text)]_vars

\* Two requests with the same id were in flight on two workers; the response
\* to one was delivered on its worker's transport and resolved it, and the
\* other is still pending and listening.
C24_Witness ==
    \E a, b \in CallIds :
       /\ RequestSent(a) /\ RequestSent(b)
       /\ transports[calls[a].t].w # transports[calls[b].t].w
       /\ calls[a].id = calls[b].id
       /\ replies[b] # NoReply /\ replies[b].pend
       /\ calls[b].outcome = Resolved(replies[b].v)
       /\ replies[a] = NoReply
       /\ calls[a].outcome = Pending
       /\ a \in transports[calls[a].t].listeners

\* C25: getServerStatus has an entry for every configured worker, also for
\* one that is disabled or still being opened, with the worker's state and
\* the metadata of its kind of transport.
C25_StatusOfEveryWorker ==
    \A w \in Workers :
       /\ w \in DOMAIN GetServerStatus
       /\ GetServerStatus[w].status = connections[w].status
       /\ GetServerStatus[w].meta =
             IF servers[w].protocol = "ws" THEN {"host", "port"} ELSE {"command", "args"}

\* What does hold: the workers with an entry are those that have reported an
\* event (or failed to open), and their entries are as the claim says.
StatusOfReportedWorkers ==
    /\ DOMAIN GetServerStatus = {w \in Workers : connections[w].status # "none"}
    /\ \A w \in DOMAIN GetServerStatus :
          /\ GetServerStatus[w].status = connections[w].status
          /\ GetServerStatus[w].meta =
                IF servers[w].protocol = "ws" THEN {"host", "port"} ELSE {"command", "args"}
    /\ \A w \in Workers : ~servers[w].enabled => w \notin DOMAIN GetServerStatus

\* C26: an 'error' event of a transport that is still being opened leaves
\* its worker in state failed; one of a transport that was open, in state
\* error.
C26_OpenErrorFails ==
    [][\A t \in TransportIds :
          OnError(t)
            => connections'[transports[t].w].status =
                 IF transports[t].st = "opening" THEN "failed" ELSE "error"]_vars

\* What does hold: every 'error' event records state error with no handle,
\* and failed is recorded only when opening throws.
ErrorEventRecordsError ==
    [][/\ \A t \in TransportIds :
            OnError(t) => connections'[transports[t].w] = Entry(0, transports[t].cfg, "error")
       /\ \A w \in Workers :
            connections'[w].status = "failed"
              => (connections[w].status = "failed" \/ ~connections'[w].config.wellFormed)]_vars

\* The result objects of a turn: an answer with success = true, or an error
\* message with success = false.
IsAnswer(r) == r.success /\ r.response.k \in {"output", "content", "demo"} /\ r.error = ""
IsError(r) ==
    ~r.success /\ r.response = NoText /\ r.error \in {"Agent execution failed", "Agent not available"}

\* C27: every turn of processMessage that has ended has returned a result
\* object, an answer or an error, whatever the model and the tools did; and
\* a turn that has not ended can take a step.
C27_AlwaysAResult ==
    /\ agent.pc = "done" => (IsAnswer(agent.result) \/ IsError(agent.result))
    /\ agent.pc = "invoking" => agent.provider \in agent.agents
    /\ agent.pc = "tools" => agent.i \in 1..(Len(agent.toolCalls) + 1)

\* A turn has ended with an answer although a tool function threw and the
\* follow-up model call failed.
C27_Witness ==
    /\ agent.pc = "done"
    /\ \E j \in 1..Len(agent.toolResults) : agent.toolResults[j].result.k = "execError"
    /\ Len(agent.followUps) = 1
    /\ IsAnswer(agent.result)
    /\ agent.result.response.k = "output"

\* Transport t was torn down by reconnectToServer, and a transport opened
\* after it has reported spawn/open and is the one of its worker's entry.
Replaced(t) ==
    /\ transports[t].killed
    /\ connections[transports[t].w].status = "connected"
    /\ connections[transports[t].w].handle > t

\* C28: an exit, close or error event of a replaced transport leaves the
\* entry of its worker, which is that of the newer transport, as it is.
C28_StaleEventsIgnored ==
    [][\A t \in TransportIds :
          (Replaced(t) /\ (OnExit(t) \/ OnError(t)))
             => connections'[transports[t].w] = connections[transports[t].w]]_vars

\* C29: once the timer of a request has fired, no messageHandler of that
\* request is registered on the transport it was sent on.
C29_TimeoutRemovesHandler ==
    [][\A c \in CallIds :
          (calls[c].t # 0 /\ OnTimeout(c))
             => c \notin transports'[calls[c].t].listeners]_vars

\* What does hold: the timer rejects the request and leaves every transport
\* as it was; the handler goes only when a message under the request's id
\* arrives after all.
TimeoutLeavesHandler ==
    [][\A c \in CallIds :
          OnTimeout(c) => /\ transports' = transports
                          /\ calls[c].outcome = Pending
                                => calls'[c].outcome = Rejected(ErrTimeout)]_vars

\* The worker of call c has left Connected since c was sent: its entry no
\* longer holds the transport c was sent on.
Left(c) ==
    /\ calls[c].t # 0
    /\ connections[transports[calls[c].t].w].handle # calls[c].t

\* An event that takes a worker out of Connected, or replaces its transport.
Transition ==
    \/ \E t \in TransportIds : OnExit(t) \/ OnError(t)
    \/ \E w \in Workers : ReconnectToServer(w)

\* C30 as stated: a transition out of Connected leaves every call as it was,
\* and a call that is pending after its worker left Connected is settled by
\* nothing but its own timer, which rejects it with the timeout error.
C30_OnlyTimeoutSettles ==
    [][/\ Transition => calls' = calls
       /\ \A c \in CallIds :
            (Left(c) /\ calls[c].outcome = Pending /\ calls'[c].outcome # Pending)
               => OnTimeout(c) /\ calls'[c].outcome = Rejected(ErrTimeout)]_vars

\* C30, amended: a transition out of Connected leaves every call as it was,
\* pending with its timer armed; afterwards the call is settled by its own
\* timer or, before that, by a message under its id that the transport it
\* was sent on still delivers.
C30_TransitionLeavesPending ==
    [][/\ Transition => calls' = calls
       /\ \A c \in CallIds : (calls[c].t # 0 /\ calls[c].outcome = Pending) => calls[c].timer
       /\ \A c \in CallIds :
            (Left(c) /\ calls[c].outcome = Pending /\ calls'[c].outcome # Pending)
               => \/ OnTimeout(c) /\ calls'[c].outcome = Rejected(ErrTimeout)
                  \/ \E m \in WorkerMessages(calls[c].t) :
                        /\ m.method = "" /\ m.id = calls[c].id
                        /\ OnData(calls[c].t, Stringify(m))
                        /\ calls'[c].outcome = IF m.isErr THEN Rejected(m.val)
                                                          ELSE Resolved(m.val)]_vars

\* A request was sent, its worker's process has exited since, and the
\* request is still pending with its timer armed and due.
C30_Witness ==
    \E c \in CallIds :
       /\ RequestSent(c)
       /\ connections[transports[calls[c].t].w].status = "disconnected"
       /\ transports[calls[c].t].st \in {"exited", "dead"}
       /\ calls[c].outcome = Pending
       /\ calls[c].timer
       /\ clock >= Deadline(calls[c])

\* C31: every call of invokeTool is settled in the end.
C31_EventuallySettles ==
    \A c \in 1..MaxCalls :
       (c \in CallIds) ~> (c \in CallIds /\ calls[c].outcome # Pending)

\* A call passed both checks while its worker's socket was closing, so its
\* request was not written; the timeout has rejected it.
C31_Witness ==
    \E c \in CallIds :
       /\ calls[c].t # 0
       /\ ~RequestSent(c)
       /\ calls[c].outcome = Rejected(ErrTimeout)

\* C32: a tools/list message delivered by a transport updates the tool
\* registry for the transport's worker and leaves every call, pending or
\* not, and every registered messageHandler as it was.
C32_NotificationSettlesNothing ==
    [][\A t \in TransportIds : \A ns \in SUBSET ToolNames :
          OnData(t, Stringify(ToolsListMsg(ns)))
             => /\ calls' = calls
                /\ tools' = UpdateTools(tools, transports[t].w, ns)
                /\ \A u \in TransportIds : transports'[u].listeners = transports[u].listeners]_vars

\* A request is pending on a worker's transport, its handler listening, and
\* a tool list of that worker has withdrawn the tool it calls.
C32_Witness ==
    \E c \in CallIds :
       /\ RequestSent(c)
       /\ calls[c].outcome = Pending
       /\ c \in transports[calls[c].t].listeners
       /\ calls[c].tool \in withdrawn
       /\ replies[c] = NoReply

\* C33: a transport that delivers data can deliver an unparsable frame, and
\* the step then changes nothing: the connection entries and their handles,
\* the tool registry, the calls and the transports are as they were.
C33_UnparsableDiscarded ==
    \A t \in TransportIds :
       transports[t].st \in {"open", "exited"}
          => /\ ENABLED OnData(t, <<Fragment>>)
             /\ ~ENABLED (OnData(t, <<Fragment>>) /\ vars' # vars)

\* A worker with a registered tool and a pending request, whose transport
\* can deliver an unparsable frame.
C33_Witness ==
    \E c \in CallIds :
       /\ RequestSent(c)
       /\ calls[c].outcome = Pending
       /\ calls[c].tool \in DOMAIN tools
       /\ connections[transports[calls[c].t].w].status = "connected"
       /\ ENABLED OnData(calls[c].t, <<Fragment>>)

\* C34: on an open process transport the two chunks of a split line
\* deliver its message once, when the second arrives, and a chunk of two
\* lines delivers both messages, in order.
C34_LineFraming ==
    \A t \in TransportIds :
       (transports[t].proto = "stdio" /\ transports[t].st = "open")
          => \A m1, m2 \in WorkerMessages(t) :
                /\ <<HeadPiece(m1)>> \in StreamChunks(t)
                /\ Received(<<HeadPiece(m1)>>) \o Received(<<TailPiece(m1), NewLine>>) = <<m1>>
                /\ Received(Stringify(m1) \o Stringify(m2)) = <<m1, m2>>

\* What does hold: a chunk that is one line is delivered as one message,
\* and any other chunk is dropped whole.
OneLineChunksOnly ==
    \A t \in TransportIds :
       /\ \A m \in WorkerMessages(t) : Received(Stringify(m)) = <<m>>
       /\ \A text \in StreamChunks(t) : Received(text) = <<>>

\* C35: when agent.invoke fails with a parsing error that carries the model
\* output, and the output holds no tool-call expression, the turn ends at
\* once with that output as the answer, success = true, an empty tool trace
\* and no follow-up model call.
C35_ParseErrorVerbatim ==
    [][\A output \in Outputs :
          (output # <<>> /\ ExprsIn(output) = <<>> /\ AgentThrows(TRUE, output))
            => /\ agent'.pc = "done"
               /\ agent'.result = Success(Raw(output), <<>>)
               /\ agent'.followUps = <<>>]_vars

\* What holds of C35: the output carried by a parsing error is scanned as
\* the output of a successful call is, and without a tool_code block it is
\* the answer.
ParseErrorAsOutput ==
    [][\A output \in Outputs :
          (output # <<>> /\ AgentThrows(TRUE, output))
            => /\ agent' = ScanResponse(agent, output)
               /\ ToolCallsIn(output) = <<>>
                    => /\ agent'.pc = "done"
                       /\ agent'.result = Success(Raw(output), <<>>)
                       /\ agent'.followUps = <<>>]_vars

\* C36: after every step each tool of the registry is keyed by the id of its
\* worker and its name, and its worker has an entry in the connection
\* registry; and an entry, once there, is never removed.
C36_ToolsHaveOwners ==
    [][/\ \A id \in DOMAIN tools' :
            /\ id = ToolId(tools'[id].serverId, tools'[id].name)
            /\ tools'[id].fullName = id
            /\ tools'[id].serverId \in Workers
            /\ connections'[tools'[id].serverId].status # "none"
       /\ \A w \in Workers :
            connections[w].status # "none" => connections'[w].status # "none"]_vars

\* A worker advertised a tool, its transport ended and it was reconnected:
\* the tool is in the registry and its worker's entry says disconnected.
C36_Witness ==
    \E id \in DOMAIN tools :
       /\ connections[tools[id].serverId].status = "disconnected"
       /\ \E t \in TransportIds : transports[t].w = tools[id].serverId /\ transports[t].killed
       /\ Len(transports) >= 2

\* C37: the entry of a worker says connected exactly when it holds a
\* transport handle; an entry that says disconnected, error or failed holds
\* none.
C37_ConnectedIffHandle ==
    \A w \in Workers :
       connections[w].status # "none"
          => /\ connections[w].status \in {"connected", "disconnected", "error", "failed"}
             /\ connections[w].status = "connected" <=> connections[w].handle # 0
             /\ connections[w].handle # 0
                   => /\ connections[w].handle \in TransportIds
                      /\ transports[connections[w].handle].w = w

\* One worker is connected and holds its handle while the other, after an
\* error, holds none.
C37_Witness ==
    \E w, x \in Workers :
       /\ connections[w].status = "connected" /\ connections[w].handle # 0
       /\ connections[x].status = "error" /\ connections[x].handle = 0

----------------------------------------------------------------------------
(* Configuration update: PUT /servers/:id *)

\* The ports an update can carry; NoPort is an update that carries neither
\* host nor port.
NoPort == ""
Ports == {FirstPort, "p2"}

\* database.updateMCPServer(id, updates): the stored configuration is replaced
\* by a new object {...server, ...updates}; the object a connection entry
\* holds is not touched.
UpdateMCPServer(db, w, port) ==
    IF port = NoPort THEN db ELSE [db EXCEPT ![w].port = port]

\* The route: update the database, then reconnectToServer(id) when the update
\* carries connection details. The reconnect is not awaited, but it runs up to
\* its first suspension (the old transport ended, the new one opened) before
\* the route answers.
PutServer(w, port) ==
    /\ Len(transports) < MaxTransports
    /\ Objects < MaxObjects
    /\ servers' = UpdateMCPServer(servers, w, port)
    /\ IF port # NoPort
       THEN Reconnect(w)
       ELSE UNCHANGED <<connections, transports, reconnected>>
    /\ UNCHANGED <<tools, calls, clock, replies, withdrawn, agent>>

ConfigNext ==
    \/ Next
    \/ \E w \in Workers, port \in Ports \cup {NoPort} : PutServer(w, port)

ConfigSpec == Init /\ [][ConfigNext]_vars

\* C38: when an update of a worker's connection details makes the service
\* reconnect, the transport that the reconnect opens is opened with the updated
\* configuration, the one now stored for the worker.
C38_ReconnectUsesUpdate ==
    [][\A w \in Workers, port \in Ports :
          (PutServer(w, port) /\ Len(transports') > Len(transports))
             => transports'[Len(transports')].cfg = servers'[w]]_vars

\* What holds instead: the transport is opened with the configuration the
\* connection entry held before the update, and the entry keeps holding it.
ReconnectUsesCapturedConfig ==
    [][\A w \in Workers, port \in Ports :
          (PutServer(w, port) /\ Len(transports') > Len(transports))
             => /\ transports'[Len(transports')].cfg = connections[w].config
                /\ connections'[w].config = connections[w].config]_vars

----------------------------------------------------------------------------
(* Parsing of a tool-call expression *)

\* The mapping an expression supplies: every key with its value, a later
\* value of a key replacing an earlier one.
Supplied(paramsStr) ==
    [key \in {paramsStr[p].k : p \in 1..Len(paramsStr)} |->
        paramsStr[CHOOSE p \in 1..Len(paramsStr) :
                    /\ paramsStr[p].k = key
                    /\ \A q \in 1..Len(paramsStr) : paramsStr[q].k = key => q <= p].v]

\* The pass of the loop runs the tool of a block that is one expression e.
RunsOne(e) ==
    /\ ExecuteToolCall
    /\ agent.toolCalls[agent.i] = <<<<e>>>>
    /\ Len(agent'.toolsUsed) = Len(agent.toolsUsed) + 1

\* C39: parsing name(k1="v1", ...) gives the tool name and a mapping with
\* every supplied key and its value; k="" is in the mapping with the empty
\* string, and no argument gives the empty mapping.
C39_EveryKeyMapped ==
    [][\A e \in Exprs :
          RunsOne(e)
            => /\ agent'.toolsUsed[Len(agent'.toolsUsed)].tool = BareName(e.name)
               /\ agent'.toolsUsed[Len(agent'.toolsUsed)].input = Supplied(e.params)]_vars

\* What holds instead: the name is the one written, and the mapping holds the
\* keys whose value is not empty.
NonEmptyValuesMapped ==
    [][\A e \in Exprs :
          RunsOne(e)
            => /\ agent'.toolsUsed[Len(agent'.toolsUsed)].tool = BareName(e.name)
               /\ agent'.toolsUsed[Len(agent'.toolsUsed)].input =
                     Supplied(SelectSeq(e.params, LAMBDA p : p.v # ""))]_vars

====
